---- MODULE Spec2Model ----
(***************************************************************************)
(* A model of the ISAAC random number engines of isaac.h: the shared       *)
(* scaffold _isaac<Derived, Alpha, T> and its two derived engines          *)
(* isaac<Alpha> (32-bit words) and isaac64<Alpha> (64-bit words).          *)
(*                                                                         *)
(* A word is a sequence of 16-bit limbs, least significant first (two      *)
(* limbs for std::uint32_t, four for std::uint64_t), so that all the       *)
(* arithmetic stays inside the integers TLC can compute with and still     *)
(* wraps at the word width exactly as the unsigned C++ types do.           *)
(***************************************************************************)
EXTENDS Integers, Sequences, FiniteSets, TLC

\* The template parameter Alpha: the engines are instantiated with this
\* exponent.  init() walks the arrays in chunks of eight words, so 3 is the
\* smallest exponent the code supports.
Alpha == 3

\* static constexpr std::size_t state_size = 1 << Alpha
state_size == 2 ^ Alpha

Idx == 0 .. (state_size - 1)

\* The two derived class templates.
Variants == {"isaac", "isaac64"}

---------------------------------------------------------------------------
(* Unsigned word arithmetic                                                *)

Limb == 2 ^ 16

\* Number of 16-bit limbs in result_type: std::uint32_t or std::uint64_t.
NL(v) == IF v = "isaac" THEN 2 ELSE 4

\* The word of n limbs whose value is the (small) natural number k.
ToWord(k, n) ==
    IF n = 2 THEN <<k % Limb, (k \div Limb) % Limb>>
             ELSE <<k % Limb, (k \div Limb) % Limb, 0, 0>>

RECURSIVE XorBits(_, _)
\* Bitwise exclusive or of two naturals, bit by bit.
XorBits(p, q) ==
    IF p = 0 THEN q
    ELSE IF q = 0 THEN p
    ELSE ((p + q) % 2) + 2 * XorBits(p \div 2, q \div 2)

\* The exclusive or of every pair of 4-bit values.
Xor4 == [p \in 0 .. 15 |-> [q \in 0 .. 15 |-> XorBits(p, q)]]

\* Bitwise exclusive or of two 16-bit limbs, four bits at a time.
XorInt(p, q) ==
      Xor4[p % 16][q % 16]
    + 16 * Xor4[(p \div 16) % 16][(q \div 16) % 16]
    + 256 * Xor4[(p \div 256) % 16][(q \div 256) % 16]
    + 4096 * Xor4[p \div 4096][q \div 4096]

\* x ^ y
WXor(x, y) ==
    LET L(i) == XorInt(x[i], y[i])
    IN  IF Len(x) = 2 THEN <<L(1), L(2)>> ELSE <<L(1), L(2), L(3), L(4)>>

\* ~x
WNot(x) ==
    LET L(i) == Limb - 1 - x[i]
    IN  IF Len(x) = 2 THEN <<L(1), L(2)>> ELSE <<L(1), L(2), L(3), L(4)>>

\* x + y + carry, limb by limb, the carry out of the last limb dropped
AddLimbs(x, y, carry) ==
    LET s1 == x[1] + y[1] + carry
        s2 == x[2] + y[2] + s1 \div Limb
    IN  IF Len(x) = 2
            THEN <<s1 % Limb, s2 % Limb>>
            ELSE LET s3 == x[3] + y[3] + s2 \div Limb
                     s4 == x[4] + y[4] + s3 \div Limb
                 IN  <<s1 % Limb, s2 % Limb, s3 % Limb, s4 % Limb>>

\* x + y, wrapping at the word width
WAdd(x, y) == AddLimbs(x, y, 0)

\* x - y, wrapping at the word width (x + ~y + 1)
WSub(x, y) == AddLimbs(x, WNot(y), 1)

\* x << k, for 0 <= k < word width
WShl(x, k) ==
    LET q == k \div 16
        r == k % 16
        L(i) == (IF i - q >= 1 THEN (x[i - q] * (2 ^ r)) % Limb ELSE 0)
              + (IF i - q - 1 >= 1 /\ r > 0
                    THEN x[i - q - 1] \div (2 ^ (16 - r)) ELSE 0)
    IN  IF Len(x) = 2 THEN <<L(1), L(2)>> ELSE <<L(1), L(2), L(3), L(4)>>

\* x >> k, for 0 <= k < word width
WShr(x, k) ==
    LET q == k \div 16
        r == k % 16
        L(i) == (IF i + q <= Len(x) THEN x[i + q] \div (2 ^ r) ELSE 0)
              + (IF i + q + 1 <= Len(x) /\ r > 0
                    THEN (x[i + q + 1] * (2 ^ (16 - r))) % Limb ELSE 0)
    IN  IF Len(x) = 2 THEN <<L(1), L(2)>> ELSE <<L(1), L(2), L(3), L(4)>>

---------------------------------------------------------------------------
(* isaac<Alpha>: the 32-bit engine                                         *)

\* isaac::_golden: 0x9e3779b9
isaac_golden == <<31161, 40503>>

\* The end of a line of isaac::_mix, x ^= ... having given xv:  z += x;  y += w;
isaac_mix_put(r, x, y, z, w, xv) ==
    [r EXCEPT ![x] = xv, ![z] = WAdd(r[z], xv), ![y] = WAdd(r[y], r[w])]

\* One line of isaac::_mix:  x ^= y << k (or y >> k);  z += x;  y += w;
isaac_mix_line(r, x, y, z, w, left, k) ==
    isaac_mix_put(r, x, y, z, w, WXor(r[x], IF left THEN WShl(r[y], k) ELSE WShr(r[y], k)))

\* The eight lines of isaac::_mix in order: the words x, y, z, w of the line,
\* whether the shift is to the left, and the shift count.
isaac_mix_lines ==
    << <<"a", "b", "d", "c", TRUE, 11>>, <<"b", "c", "e", "d", FALSE, 2>>,
       <<"c", "d", "f", "e", TRUE, 8>>,  <<"d", "e", "g", "f", FALSE, 16>>,
       <<"e", "f", "h", "g", TRUE, 10>>, <<"f", "g", "a", "h", FALSE, 4>>,
       <<"g", "h", "b", "a", TRUE, 8>>,  <<"h", "a", "c", "b", FALSE, 9>> >>

\* The line of isaac::_mix that the row ln describes
isaac_mix_row(r, ln) == isaac_mix_line(r, ln[1], ln[2], ln[3], ln[4], ln[5], ln[6])

RECURSIVE isaac_mix_from(_, _)
\* The lines n, n + 1, ... of isaac::_mix, one after the other
isaac_mix_from(r, n) ==
    IF n <= Len(isaac_mix_lines)
        THEN isaac_mix_from(isaac_mix_row(r, isaac_mix_lines[n]), n + 1)
        ELSE r

\* isaac::_mix(a, b, c, d, e, f, g, h): r holds the eight words
isaac_mix(r) == isaac_mix_from(r, 1)

\* A faulty mask, one bit too low: x & ((state_size - 1) << 1)
isaac_ind_offset_low(x) == ((x[1] \div 2) % state_size) * 2

\* The byte offset into mm that isaac::ind loads from:
\* x & ((state_size - 1) << 2)
isaac_ind_offset(x) == ((x[1] \div 4) % state_size) * 4

\* The slot of mm that byte offset lies in
isaac_ind_index(x) == isaac_ind_offset(x) \div 4

\* isaac::ind
isaac_ind(mm, x) == mm[isaac_ind_index(x)]

\* isaac::rngstep works on the locals of _do_isaac, held in st: the
\* accumulators a, b, the arrays mm (memory_) and rr (result_), and the
\* positions of the pointers m, m2 and r as indices.  Its four statements
\* are four operators, each handing on what the one before has computed.

\* The locals after rngstep has computed a, y and b; log is handed on
isaac_rngstep_r(st, a, y, b) ==
    [a |-> a, b |-> b, mm |-> [st.mm EXCEPT ![st.m] = y],
     rr |-> [st.rr EXCEPT ![st.r] = b],
     m |-> st.m + 1, m2 |-> st.m2 + 1, r |-> st.r + 1, log |-> st.log]

\* What one rngstep touches: the slots *m, *m2 and *r stand at, the words x
\* and y, and the byte offsets into mm of its two ind loads
isaac_touched(st, x, y) ==
    [m |-> st.m, m2 |-> st.m2, r |-> st.r, x |-> x, y |-> y,
     ld1 |-> isaac_ind_offset(x), ld2 |-> isaac_ind_offset(WShr(y, Alpha))]

\*   *(r++) = b = ind(mm, y >> Alpha) + x;     (mm already holds y)
isaac_rngstep_b(st, x, a, y) ==
    isaac_rngstep_r([st EXCEPT !.log = Append(@, isaac_touched(st, x, y))], a, y,
        WAdd(isaac_ind([st.mm EXCEPT ![st.m] = y], WShr(y, Alpha)), x))

\*   *(m++) = y = ind(mm, x) + a + b;
isaac_rngstep_y(st, x, a) ==
    isaac_rngstep_b(st, x, a, WAdd(WAdd(isaac_ind(st.mm, x), a), st.b))

\*   x = *m;  a = (a ^ (mix)) + *(m2++);
isaac_rngstep(mix, st) ==
    isaac_rngstep_y(st, st.mm[st.m], WAdd(WXor(st.a, mix), st.mm[st.m2]))

\* rngstep(a << k, ...) or rngstep(a >> k, ...) on the locals st
isaac_step(st, left, k) ==
    isaac_rngstep(IF left THEN WShl(st.a, k) ELSE WShr(st.a, k), st)

\* One iteration of either loop of isaac::_do_isaac: four rngsteps.
isaac_four(st) ==
    isaac_step(isaac_step(isaac_step(isaac_step(st, TRUE, 13), FALSE, 6), TRUE, 2),
               FALSE, 16)

RECURSIVE isaac_loop1(_)
\* for (m = mm, mend = m2 = m + state_size/2; m < mend; )
isaac_loop1(st) ==
    IF st.m < state_size \div 2 THEN isaac_loop1(isaac_four(st)) ELSE st

RECURSIVE isaac_loop2(_)
\* for (m2 = mm; m2 < mend; )
isaac_loop2(st) ==
    IF st.m2 < state_size \div 2 THEN isaac_loop2(isaac_four(st)) ELSE st

\* b_ = b; a_ = a; with memory_ and result_ as the loops left them
isaac_store(e, c1, st) ==
    [e EXCEPT !.c = c1, !.memory = st.mm, !.result = st.rr, !.b = st.b, !.a = st.a]

\* ++base::c_
isaac_count(e) == WAdd(e.c, ToWord(1, 2))

\* The locals of _do_isaac when its two loops are done; log starts empty
isaac_loops(e) ==
    isaac_loop2([isaac_loop1([a |-> e.a, b |-> WAdd(e.b, isaac_count(e)),
                     mm |-> e.memory, rr |-> e.result,
                     m |-> 0, m2 |-> state_size \div 2, r |-> 0,
                     log |-> <<>>])
               EXCEPT !.m2 = 0])

\* isaac::_do_isaac: one generation pass
isaac_do_isaac(e) == isaac_store(e, isaac_count(e), isaac_loops(e))

---------------------------------------------------------------------------
(* isaac64<Alpha>: the 64-bit engine                                       *)

\* isaac64::_golden: 0x9e3779b97f4a7c13
isaac64_golden == <<31763, 32586, 31161, 40503>>

\* The end of a line of isaac64::_mix, p -= q having given pv:
\* x ^= y >> k (or y << k);  y += p;
isaac64_mix_put(r, p, x, y, left, k, pv) ==
    [r EXCEPT ![p] = pv,
              ![x] = WXor(r[x], IF left THEN WShl(r[y], k) ELSE WShr(r[y], k)),
              ![y] = WAdd(r[y], pv)]

\* One line of isaac64::_mix:  p -= q;  x ^= y >> k (or y << k);  y += p;
isaac64_mix_line(r, p, q, x, y, left, k) ==
    isaac64_mix_put(r, p, x, y, left, k, WSub(r[p], r[q]))

\* The eight lines of isaac64::_mix in order: the words p, q, x, y of the
\* line, whether the shift is to the left, and the shift count.
isaac64_mix_lines ==
    << <<"a", "e", "f", "h", FALSE, 9>>,  <<"b", "f", "g", "a", TRUE, 9>>,
       <<"c", "g", "h", "b", FALSE, 23>>, <<"d", "h", "a", "c", TRUE, 15>>,
       <<"e", "a", "b", "d", FALSE, 14>>, <<"f", "b", "c", "e", TRUE, 20>>,
       <<"g", "c", "d", "f", FALSE, 17>>, <<"h", "d", "e", "g", TRUE, 14>> >>

\* The line of isaac64::_mix that the row ln describes
isaac64_mix_row(r, ln) == isaac64_mix_line(r, ln[1], ln[2], ln[3], ln[4], ln[5], ln[6])

RECURSIVE isaac64_mix_from(_, _)
\* The lines n, n + 1, ... of isaac64::_mix, one after the other
isaac64_mix_from(r, n) ==
    IF n <= Len(isaac64_mix_lines)
        THEN isaac64_mix_from(isaac64_mix_row(r, isaac64_mix_lines[n]), n + 1)
        ELSE r

\* isaac64::_mix(a, b, c, d, e, f, g, h): r holds the eight words
isaac64_mix(r) == isaac64_mix_from(r, 1)

\* The byte offset into mm that isaac64::ind loads from:
\* x & ((state_size - 1) << 3)
isaac64_ind_offset(x) == ((x[1] \div 8) % state_size) * 8

\* The slot of mm that byte offset lies in
isaac64_ind_index(x) == isaac64_ind_offset(x) \div 8

\* isaac64::ind
isaac64_ind(mm, x) == mm[isaac64_ind_index(x)]

\* isaac64::rngstep works on the locals of _do_isaac, held in st: the
\* accumulators a, b, the arrays mm (memory_) and rr (result_), and the
\* positions of the pointers m, m2 and r as indices.  Its four statements
\* are four operators, each handing on what the one before has computed.

\* The locals after rngstep has computed a, y and b; log is handed on
isaac64_rngstep_r(st, a, y, b) ==
    [a |-> a, b |-> b, mm |-> [st.mm EXCEPT ![st.m] = y],
     rr |-> [st.rr EXCEPT ![st.r] = b],
     m |-> st.m + 1, m2 |-> st.m2 + 1, r |-> st.r + 1, log |-> st.log]

\* What one rngstep touches: the slots *m, *m2 and *r stand at, the words x
\* and y, and the byte offsets into mm of its two ind loads
isaac64_touched(st, x, y) ==
    [m |-> st.m, m2 |-> st.m2, r |-> st.r, x |-> x, y |-> y,
     ld1 |-> isaac64_ind_offset(x), ld2 |-> isaac64_ind_offset(WShr(y, Alpha))]

\*   *(r++) = b = ind(mm, y >> Alpha) + x;     (mm already holds y)
isaac64_rngstep_b(st, x, a, y) ==
    isaac64_rngstep_r([st EXCEPT !.log = Append(@, isaac64_touched(st, x, y))], a, y,
        WAdd(isaac64_ind([st.mm EXCEPT ![st.m] = y], WShr(y, Alpha)), x))

\*   *(m++) = y = ind(mm, x) + a + b;
isaac64_rngstep_y(st, x, a) ==
    isaac64_rngstep_b(st, x, a, WAdd(WAdd(isaac64_ind(st.mm, x), a), st.b))

\*   x = *m;  a = (mix) + *(m2++);
isaac64_rngstep(mix, st) ==
    isaac64_rngstep_y(st, st.mm[st.m], WAdd(mix, st.mm[st.m2]))

\* rngstep(mx, ...) or, for the first of the four, rngstep(~(mx), ...)
isaac64_step_mix(st, neg, mx) == isaac64_rngstep(IF neg THEN WNot(mx) ELSE mx, st)

\* rngstep with the mix a ^ (a << k) or a ^ (a >> k), complemented if neg
isaac64_step(st, left, k, neg) ==
    isaac64_step_mix(st, neg, WXor(st.a, IF left THEN WShl(st.a, k) ELSE WShr(st.a, k)))

\* One iteration of either loop of isaac64::_do_isaac: four rngsteps.
isaac64_four(st) ==
    isaac64_step(isaac64_step(isaac64_step(isaac64_step(st, TRUE, 21, TRUE),
                                           FALSE, 5, FALSE),
                              TRUE, 12, FALSE),
                 FALSE, 33, FALSE)

RECURSIVE isaac64_loop1(_)
\* for (m = mm, mend = m2 = m + state_size/2; m < mend; )
isaac64_loop1(st) ==
    IF st.m < state_size \div 2 THEN isaac64_loop1(isaac64_four(st)) ELSE st

RECURSIVE isaac64_loop2(_)
\* for (m2 = mm; m2 < mend; )
isaac64_loop2(st) ==
    IF st.m2 < state_size \div 2 THEN isaac64_loop2(isaac64_four(st)) ELSE st

\* b_ = b; a_ = a; with memory_ and result_ as the loops left them
isaac64_store(e, c1, st) ==
    [e EXCEPT !.c = c1, !.memory = st.mm, !.result = st.rr, !.b = st.b, !.a = st.a]

\* ++base::c_
isaac64_count(e) == WAdd(e.c, ToWord(1, 4))

\* The locals of _do_isaac when its two loops are done; log starts empty
isaac64_loops(e) ==
    isaac64_loop2([isaac64_loop1([a |-> e.a, b |-> WAdd(e.b, isaac64_count(e)),
                       mm |-> e.memory, rr |-> e.result,
                       m |-> 0, m2 |-> state_size \div 2, r |-> 0,
                       log |-> <<>>])
                 EXCEPT !.m2 = 0])

\* isaac64::_do_isaac: one generation pass
isaac64_do_isaac(e) == isaac64_store(e, isaac64_count(e), isaac64_loops(e))

---------------------------------------------------------------------------
(* _isaac<Derived, Alpha, T>: the scaffold                                 *)
(* An engine is a record [result, memory, a, b, c, count]: result_ and     *)
(* memory_ are functions on 0 .. state_size-1, a_, b_, c_ are words and    *)
(* count_ is a std::size_t, held as a word of four limbs.                  *)

\* The std::size_t with value k, for k below 2^31
ToSize(k) == ToWord(k, 4)

\* TRUE iff every limb of the word x is zero
IsZero(x) == \A i \in 1 .. Len(x) : x[i] = 0

\* TRUE iff the std::size_t n is an index of result_, that is n < state_size
InBuffer(n) == n[4] = 0 /\ n[3] = 0 /\ n[2] = 0 /\ n[1] < state_size

\* A faulty generation pass that does not keep the c it counted up
do_isaac_uncounted(v, e) ==
    [(IF v = "isaac" THEN isaac_do_isaac(e) ELSE isaac64_do_isaac(e))
        EXCEPT !.c = e.c]

\* _isaac::do_isaac: static dispatch to Derived::_do_isaac
do_isaac(v, e) == IF v = "isaac" THEN isaac_do_isaac(e) ELSE isaac64_do_isaac(e)

\* _isaac::golden
golden(v) == IF v = "isaac" THEN isaac_golden ELSE isaac64_golden

\* _isaac::mix
mix(v, r) == IF v = "isaac" THEN isaac_mix(r) ELSE isaac64_mix(r)

RECURSIVE scramble(_, _)
\* for (i = 0; i < 4; ++i) mix(a,b,c,d,e,f,g,h);   st = [regs, i]
scramble(v, st) ==
    IF st.i < 4 THEN scramble(v, [regs |-> mix(v, st.regs), i |-> st.i + 1])
                ELSE st.regs

\* a += src[i]; b += src[i+1]; ... h += src[i+7];
initAdd(r, src, i) ==
    [a |-> WAdd(r.a, src[i]),     b |-> WAdd(r.b, src[i + 1]),
     c |-> WAdd(r.c, src[i + 2]), d |-> WAdd(r.d, src[i + 3]),
     e |-> WAdd(r.e, src[i + 4]), f |-> WAdd(r.f, src[i + 5]),
     g |-> WAdd(r.g, src[i + 6]), h |-> WAdd(r.h, src[i + 7])]

\* memory_[i] = a; memory_[i+1] = b; ... memory_[i+7] = h;
initStore(st, r) ==
    [regs |-> r,
     mem  |-> [st.mem EXCEPT ![st.i] = r.a,     ![st.i + 1] = r.b, ![st.i + 2] = r.c,
                             ![st.i + 3] = r.d, ![st.i + 4] = r.e, ![st.i + 5] = r.f,
                             ![st.i + 6] = r.g, ![st.i + 7] = r.h],
     i    |-> st.i + 8]

\* One chunk of either pass of init(): the eight words at src[i .. i+7] are
\* added into the registers, the registers are mixed and stored to
\* memory_[i .. i+7].  st = [regs, mem, i]
initChunk(v, st, src) == initStore(st, mix(v, initAdd(st.regs, src, st.i)))

RECURSIVE initPass1(_, _, _)
\* for (i = 0; i < state_size; i += 8), reading result_
initPass1(v, st, res) ==
    IF st.i < state_size THEN initPass1(v, initChunk(v, st, res), res) ELSE st

RECURSIVE initPass2(_, _)
\* for (i = 0; i < state_size; i += 8), reading memory_
initPass2(v, st) ==
    IF st.i < state_size THEN initPass2(v, initChunk(v, st, st.mem)) ELSE st

\* a = b = c = d = e = f = g = h = golden();
initRegs(g) == [a |-> g, b |-> g, c |-> g, d |-> g, e |-> g, f |-> g, g |-> g, h |-> g]

\* A faulty init that leaves a_, b_ and c_ as they were
initZero_kept(v, e) == e

\* a_ = b_ = c_ = 0;
initZero(v, e) ==
    [e EXCEPT !.a = ToWord(0, NL(v)), !.b = ToWord(0, NL(v)), !.c = ToWord(0, NL(v))]

\* A faulty init that leaves out the second pass
initPasses_once(v, e, regs) ==
    initPass1(v, [regs |-> regs, mem |-> e.memory, i |-> 0], e.result)

\* The two passes over result_ and then memory_, from the scrambled registers
initPasses(v, e, regs) ==
    initPass2(v, [initPass1(v, [regs |-> regs, mem |-> e.memory, i |-> 0], e.result)
                      EXCEPT !.i = 0])

\* do_isaac(); count_ = state_size;   mem is memory_ as the passes left it
initFill(v, e, mem) ==
    [do_isaac(v, [e EXCEPT !.memory = mem]) EXCEPT !.count = ToSize(state_size)]

\* _isaac::init
init(v, e) ==
    initFill(v, initZero(v, e),
             initPasses(v, e, scramble(v, [regs |-> initRegs(golden(v)), i |-> 0])).mem)

\* static constexpr result_type default_seed = 0
default_seed(v) == ToWord(0, NL(v))

\* A faulty seed(result_type) that does not fill result_ with the seed word
seed_unfilled(v, e, s) == init(v, e)

\* _isaac::seed(result_type s)
seed(v, e, s) == init(v, [e EXCEPT !.result = [i \in Idx |-> s]])

\* _isaac::seed() with no argument
seed_default(v, e) == seed(v, e, default_seed(v))

\* x * c modulo 2^32 for words of two limbs; a product of two limbs is
\* built from the two bytes of its first factor, so that no step exceeds
\* 2^31
WMul(x, c) ==
    LET lo(a, b) == ((a % 256) * b + (((a \div 256) * b) % 256) * 256) % Limb
        hi(a, b) == ((a % 256) * b + (((a \div 256) * b) % 256) * 256) \div Limb
                        + ((a \div 256) * b) \div 256
    IN  <<lo(x[1], c[1]), (hi(x[1], c[1]) + lo(x[1], c[2]) + lo(x[2], c[1])) % Limb>>

\* The three stores that end a step of std::seed_seq::generate, in the
\* order they are made: begin[kpn] and begin[kqn] take r1 and r2 in, by +
\* or, in the last loop, by ^, and begin[kn] = r2
generate_put(b, kn, kpn, kqn, r1, r2, last) ==
    [[[b EXCEPT ![kpn] = IF last THEN WXor(@, r1) ELSE WAdd(@, r1)]
         EXCEPT ![kqn] = IF last THEN WXor(@, r2) ELSE WAdd(@, r2)]
         EXCEPT ![kn] = r2]

\* r2 (r4 in the last loop) of step k from its r1 (r3), and the stores
generate_r(b, k, sv, p, q, r1, last) ==
    generate_put(b, k % state_size, (k + p) % state_size, (k + q) % state_size, r1,
        IF last THEN WSub(r1, ToWord(k % state_size, 2))
        ELSE IF k = 0 THEN WAdd(r1, ToWord(Len(sv), 2))
        ELSE IF k <= Len(sv) THEN WAdd(WAdd(r1, ToWord(k % state_size, 2)), sv[k])
        ELSE WAdd(r1, ToWord(k % state_size, 2)),
        last)

\* Step k of std::seed_seq::generate over the state_size words b: the step
\* k = 0, a step of the two loops up to m = max(s + 1, n), or a step of the
\* last loop, which adds where the others xor and xors where they add
generate_step(b, k, sv, p, q, m) ==
    LET arg == IF k < m
                   THEN WXor(WXor(b[k % state_size], b[(k + p) % state_size]),
                             b[(k - 1) % state_size])
                   ELSE WAdd(WAdd(b[k % state_size], b[(k + p) % state_size]),
                             b[(k - 1) % state_size])
    IN  IF k = 0 THEN generate_r(b, k, sv, p, q, ToWord(1371501266, 2), FALSE)
        ELSE IF k < m
            THEN generate_r(b, k, sv, p, q,
                            WMul(ToWord(1664525, 2), WXor(arg, WShr(arg, 27))), FALSE)
            ELSE generate_r(b, k, sv, p, q,
                            WMul(ToWord(1566083941, 2), WXor(arg, WShr(arg, 27))), TRUE)

RECURSIVE generate_loop(_, _, _, _, _, _)
\* The steps k, k + 1, ..., m + n - 1 of generate
generate_loop(b, k, sv, p, q, m) ==
    IF k < m + state_size
        THEN generate_loop(generate_step(b, k, sv, p, q, m), k + 1, sv, p, q, m)
        ELSE b

\* std::seed_seq::generate(seed_array.begin(), seed_array.end()) for the
\* seed_seq holding the 32-bit words sv: every word starts as 0x8b8b8b8b,
\* t, p and q come from n = state_size; a 64-bit result_type holds the
\* 32-bit value
generate(v, sv) ==
    LET n == state_size
        t == IF n >= 623 THEN 11 ELSE IF n >= 68 THEN 7 ELSE IF n >= 39 THEN 5
             ELSE IF n >= 7 THEN 3 ELSE (n - 1) \div 2
        b == generate_loop([i \in Idx |-> <<35723, 35723>>], 0, sv, (n - t) \div 2,
                           (n - t) \div 2 + t,
                           IF Len(sv) + 1 > n THEN Len(sv) + 1 ELSE n)
    IN  [i \in Idx |-> IF v = "isaac" THEN b[i] ELSE b[i] \o <<0, 0>>]

\* _isaac::seed(Sseq& q) for a std::seed_seq q
seed_sseq(v, e, sv) == init(v, [e EXCEPT !.result = generate(v, sv)])

\* A faulty cursor that stays on the last element instead of going back to
\* the first
rewind_last(range, it) ==
    IF it = Len(range) + 1 THEN (IF Len(range) > 0 THEN Len(range) ELSE 1) ELSE it

\* The cursor of seed(Iter begin, Iter end) after `if (it == end) it = begin`:
\* positions are 1 .. Len(range), and Len(range) + 1 is the end iterator.
rewind(range, it) == IF it = Len(range) + 1 THEN 1 ELSE it

RECURSIVE seed_load(_, _, _)
\* The loop of seed(Iter begin, Iter end): st.res is result_, st.i the loop
\* index, st.it the iterator and st.past whether *it was evaluated with it
\* at or beyond end.  Such a read finds what lies behind the range: junk is
\* the sequence of the words at end, end + 1, ...
seed_load(range, junk, st) ==
    IF st.i < state_size
        THEN LET it == rewind(range, st.it)
                 rd == IF it > Len(range) THEN junk[it - Len(range)] ELSE range[it]
             IN  seed_load(range, junk,
                           [res  |-> [st.res EXCEPT ![st.i] = rd],
                            i    |-> st.i + 1,
                            it   |-> it + 1,
                            past |-> st.past \/ it > Len(range)])
        ELSE st

\* _isaac::seed(Iter begin, Iter end)
seed_range(v, e, range, junk) ==
    LET ld == seed_load(range, junk,
                        [res |-> e.result, i |-> 0, it |-> 1, past |-> FALSE])
    IN  [eng  |-> init(v, [e EXCEPT !.result = ld.res]),
         past |-> ld.past]

\* A faulty refill that leaves the whole batch to be given out
call_refill_full(g) ==
    [eng |-> [g EXCEPT !.count = ToSize(state_size)],
     ret |-> g.result[state_size - 1], oob |-> FALSE, wild |-> FALSE]

\* The first branch of operator()():  do_isaac(), count_ = state_size - 1,
\* result_[count_];  g is the engine after do_isaac()
call_refill(g) ==
    [eng |-> [g EXCEPT !.count = ToSize(state_size - 1)],
     ret |-> g.result[state_size - 1], oob |-> FALSE, wild |-> FALSE]

\* TRUE iff result_[k] lies inside the object e: the members lie one behind
\* the other, result_, memory_, a_, b_, c_ and count_, which is as wide as a
\* 64-bit word and, behind 32-bit words, as two of them after one of padding
within(e, k) ==
    /\ k[4] = 0 /\ k[3] = 0 /\ k[2] = 0
    /\ k[1] < 2 * state_size + (IF Len(e.a) = 2 THEN 6 ELSE 4)

\* A faulty second branch that does not store the decremented count_
call_next_stuck(e, c1, junk) ==
    [eng |-> e,
     ret |-> IF InBuffer(c1) THEN e.result[c1[1]] ELSE junk,
     oob |-> ~ InBuffer(c1), wild |-> ~ within(e, c1)]

\* What the object holds where result_[k] with k >= state_size points:
\* memory_, then a_, b_ and c_, then count_, which operator()() has by then
\* decremented to k.  The padding, and what lies behind the object, is not
\* a word of the engine: other stands for it.
beside(e, k, other) ==
    IF ~ within(e, k) \/ k[1] < state_size THEN other
    ELSE IF k[1] < 2 * state_size THEN e.memory[k[1] - state_size]
    ELSE IF k[1] = 2 * state_size THEN e.a
    ELSE IF k[1] = 2 * state_size + 1 THEN e.b
    ELSE IF k[1] = 2 * state_size + 2 THEN e.c
    ELSE IF Len(e.a) = 4 THEN k
    ELSE IF k[1] = 2 * state_size + 4 THEN <<k[1], k[2]>>
    ELSE IF k[1] = 2 * state_size + 5 THEN <<k[3], k[4]>>
    ELSE other

\* The second branch:  result_[count_], with count_ already decremented to
\* c1.  A c1 of state_size or more indexes past the end of result_: oob is
\* then TRUE and the word read is whatever is found there, the word junk;
\* wild is TRUE when the read goes outside the object altogether.
call_next(e, c1, junk) ==
    [eng |-> [e EXCEPT !.count = c1],
     ret |-> IF InBuffer(c1) THEN e.result[c1[1]] ELSE junk,
     oob |-> ~ InBuffer(c1), wild |-> ~ within(e, c1)]

\* A faulty operator()() that regenerates with one word of the batch left
call_early(v, e, junk) ==
    IF IsZero(e.count) \/ e.count = ToSize(1) THEN call_refill(do_isaac(v, e))
    ELSE call_next(e, WSub(e.count, ToSize(1)), junk)

\* _isaac::operator()():
\*   return (!count_--) ? (do_isaac(), count_ = state_size - 1, result_[count_])
\*                      : result_[count_];
call(v, e, junk) ==
    IF IsZero(e.count) THEN call_refill(do_isaac(v, e))
                       ELSE call_next(e, WSub(e.count, ToSize(1)), junk)

\* One operator()() of the loop of discard, cl what the call gave; the word
\* it returned is dropped
discard_draw(st, cl) ==
    [eng |-> cl.eng, z |-> st.z - 1, oob |-> st.oob \/ cl.oob,
     wild |-> st.wild \/ cl.wild]

RECURSIVE discard_loop(_, _, _)
\* for (; z; --z) operator()();   st = [eng, z, oob, wild]
discard_loop(v, st, junk) ==
    IF st.z # 0
        THEN discard_loop(v, discard_draw(st, call(v, st.eng, junk)), junk)
        ELSE [eng |-> st.eng, oob |-> st.oob, wild |-> st.wild]

\* A faulty discard that draws one word too few
discard_short(v, e, z, junk) ==
    discard_loop(v, [eng |-> e, z |-> IF z > 0 THEN z - 1 ELSE 0, oob |-> FALSE,
                     wild |-> FALSE], junk)

\* _isaac::discard(unsigned long long z): the engine it leaves, whether one
\* of its draws indexed outside result_, and whether outside the object
discard(v, e, z, junk) ==
    discard_loop(v, [eng |-> e, z |-> z, oob |-> FALSE, wild |-> FALSE], junk)

\* A faulty copy constructor that forgets count_
copy_no_count(e, rhs) ==
    [e EXCEPT !.result = [i \in Idx |-> rhs.result[i]],
              !.memory = [i \in Idx |-> rhs.memory[i]],
              !.a = rhs.a, !.b = rhs.b, !.c = rhs.c]

\* The copy constructor _isaac(const _isaac& rhs), filling the storage e.
copy(e, rhs) ==
    [e EXCEPT !.result = [i \in Idx |-> rhs.result[i]],
              !.memory = [i \in Idx |-> rhs.memory[i]],
              !.a = rhs.a, !.b = rhs.b, !.c = rhs.c, !.count = rhs.count]

\* A faulty operator== that looks only at the result_ slots still to be
\* given out
equal_unserved(x, y) ==
    IF x.a # y.a \/ x.b # y.b \/ x.c # y.c \/ x.count # y.count
        THEN FALSE
        ELSE ~ \E i \in Idx :
                   \/ i < x.count[1] /\ x.result[i] # y.result[i]
                   \/ x.memory[i] # y.memory[i]

\* operator==(const _isaac& x, const _isaac& y)
equal(x, y) ==
    IF x.a # y.a \/ x.b # y.b \/ x.c # y.c \/ x.count # y.count
        THEN FALSE
        ELSE ~ \E i \in Idx : x.result[i] # y.result[i] \/ x.memory[i] # y.memory[i]

\* operator!=(const _isaac& x, const _isaac& y)
not_equal(x, y) == ~ equal(x, y)

---------------------------------------------------------------------------
(* Stream insertion and extraction.  A text is a sequence of character     *)
(* codes: 48 .. 57 are the digits '0' .. '9' and 32 is the space.          *)

RECURSIVE Div10(_, _, _)
\* x divided by ten from limb i down, rem being the remainder carried in.
Div10(x, i, rem) ==
    IF i = 0 THEN [q |-> <<>>, r |-> rem]
    ELSE LET cur  == rem * Limb + x[i]
             rest == Div10(x, i - 1, cur % 10)
         IN  [q |-> Append(rest.q, cur \div 10), r |-> rest.r]

RECURSIVE WordDigits(_)
WordDigits(x) ==
    IF IsZero(x) THEN <<>>
    ELSE LET d == Div10(x, Len(x), 0)
         IN  Append(WordDigits(d.q), 48 + d.r)

\* os << word, with the flags dec | left and no field width
put_word(x) == IF IsZero(x) THEN <<48>> ELSE WordDigits(x)

RECURSIVE put_array(_, _)
\* for (i = 0; i < state_size; ++i) os << sp << arr[i];
put_array(arr, i) ==
    IF i < state_size THEN <<32>> \o put_word(arr[i]) \o put_array(arr, i + 1)
                      ELSE <<>>

\* A faulty operator<< that writes b_ before a_
write_swapped(x) ==
    put_word(x.count) \o put_array(x.result, 0) \o put_array(x.memory, 0)
        \o <<32>> \o put_word(x.b) \o <<32>> \o put_word(x.a)
        \o <<32>> \o put_word(x.c)

\* operator<<(os, x): the text written
write(x) ==
    put_word(x.count) \o put_array(x.result, 0) \o put_array(x.memory, 0)
        \o <<32>> \o put_word(x.a) \o <<32>> \o put_word(x.b)
        \o <<32>> \o put_word(x.c)

\* A stream being read: the characters buf, the position pos of the next
\* character (Len(buf) + 1 at the end) and the fail bit.
RECURSIVE skipws(_, _)
\* The sentry of a formatted extraction with skipws set.
skipws(buf, pos) ==
    IF pos <= Len(buf) /\ buf[pos] \in {9, 10, 11, 12, 13, 32}
        THEN skipws(buf, pos + 1) ELSE pos

\* x * 10 + d over the limbs of x; carry is what does not fit the word.
MulAdd10(x, d) ==
    LET s1 == x[1] * 10 + d
        s2 == x[2] * 10 + s1 \div Limb
    IN  IF Len(x) = 2
            THEN [val |-> <<s1 % Limb, s2 % Limb>>, carry |-> s2 \div Limb]
            ELSE LET s3 == x[3] * 10 + s2 \div Limb
                     s4 == x[4] * 10 + s3 \div Limb
                 IN  [val   |-> <<s1 % Limb, s2 % Limb, s3 % Limb, s4 % Limb>>,
                      carry |-> s4 \div Limb]

\* One more digit: m is the value so far times ten plus the digit
digit_step(st, m) ==
    [pos |-> st.pos + 1, val |-> m.val, n |-> st.n + 1, ovf |-> st.ovf \/ m.carry # 0]

RECURSIVE get_digits(_, _)
\* The digits num_get accumulates from st.pos on: st.val is the value so
\* far, st.n the number of digits taken and st.ovf whether the value left
\* the range of the type.
get_digits(buf, st) ==
    IF st.pos <= Len(buf) /\ buf[st.pos] \in 48 .. 57
        THEN get_digits(buf, digit_step(st, MulAdd10(st.val, buf[st.pos] - 48)))
        ELSE st

\* The sign at position p: '+' is 43, '-' is 45, 0 says there is none
sign_at(buf, p) == IF p <= Len(buf) /\ buf[p] \in {43, 45} THEN buf[p] ELSE 0

\* What the extraction gives once the digits d are taken: it fails when
\* there is no digit (the end of the stream included) and when the digits
\* denote a value the type cannot hold; a value with a minus sign is
\* negated modulo the width.
get_result(is, sgn, d) ==
    [is  |-> [is EXCEPT !.pos = d.pos, !.fail = ~ (d.n > 0 /\ ~ d.ovf)],
     val |-> IF sgn = 45 THEN WSub(ToWord(0, Len(d.val)), d.val) ELSE d.val,
     ok  |-> d.n > 0 /\ ~ d.ovf]

\* The extraction from position p0, where the blanks end
get_number(is, n, p0, sgn) ==
    get_result(is, sgn,
        get_digits(is.buf, [pos |-> IF sgn = 0 THEN p0 ELSE p0 + 1,
                            val |-> ToWord(0, n), n |-> 0, ovf |-> FALSE]))

get_after_ws(is, n, p0) == get_number(is, n, p0, sign_at(is.buf, p0))

\* is >> tmp, for an unsigned type of n limbs with the flags dec | skipws.
\* Nothing is extracted from a stream whose fail bit is set.  After the
\* blanks num_get takes an optional sign and the digits that follow.
get_unsigned(is, n) ==
    IF is.fail THEN [is |-> is, val |-> ToWord(0, n), ok |-> FALSE]
               ELSE get_after_ws(is, n, skipws(is.buf, is.pos))

\* The locals of operator>> after  is >> tmp;  if (is.fail()) failed = true;
\* for the local fld;  g is what the extraction gave
read_put(st, fld, g) == [st EXCEPT !.is = g.is, ![fld] = g.val, !.failed = ~ g.ok]

\* if (!failed) { is >> tmp; if (is.fail()) failed = true; }   n limbs wide
read_word(st, fld, n) ==
    IF st.failed THEN st ELSE read_put(st, fld, get_unsigned(st.is, n))

\* The same for the element i of the array fld
read_elem(st, fld, i, g) ==
    [st EXCEPT !.is = g.is, ![fld][i] = g.val, !.failed = ~ g.ok]

RECURSIVE read_array(_, _, _, _)
\* if (!failed) for (i = 0; i < state_size; ++i)
\*     { is >> tmp[i]; if (is.fail()) { failed = true; break; } }
read_array(v, st, fld, i) ==
    IF i < state_size /\ ~ st.failed
        THEN read_array(v, read_elem(st, fld, i, get_unsigned(st.is, NL(v))), fld, i + 1)
        ELSE st

\* A faulty end of operator>> that stores the locals even after a failure
read_commit_partial(x, st) ==
    [is |-> [st.is EXCEPT !.fail = st.failed],
     x  |-> [x EXCEPT !.result = [i \in Idx |-> st.result[i]],
                      !.memory = [i \in Idx |-> st.memory[i]],
                      !.a = st.a, !.b = st.b, !.c = st.c,
                      !.count = st.count]]

\* The end of operator>>: the locals are stored to x if nothing failed
read_commit(x, st) ==
    IF ~ st.failed
        THEN [is |-> st.is,
              x  |-> [x EXCEPT !.result = [i \in Idx |-> st.result[i]],
                               !.memory = [i \in Idx |-> st.memory[i]],
                               !.a = st.a, !.b = st.b, !.c = st.c,
                               !.count = st.count]]
        ELSE [is |-> [st.is EXCEPT !.fail = TRUE], x |-> x]

\* The locals of operator>> before anything is read: failed is false; the
\* temporaries are only ever used once every one of them has been read.
read_locals(v, is) ==
    [is |-> is, failed |-> FALSE, count |-> ToSize(0),
     result |-> [i \in Idx |-> ToWord(0, NL(v))],
     memory |-> [i \in Idx |-> ToWord(0, NL(v))],
     a |-> ToWord(0, NL(v)), b |-> ToWord(0, NL(v)), c |-> ToWord(0, NL(v))]

\* The reads of operator>> in order: count_, result_, memory_
read_arrays(v, st) ==
    read_array(v, read_array(v, read_word(st, "count", 4), "result", 0), "memory", 0)

\* and then a_, b_, c_
read_abc(v, st) ==
    read_word(read_word(read_word(st, "a", NL(v)), "b", NL(v)), "c", NL(v))

\* operator>>(is, x): the stream and the engine after the call
read(v, is, x) == read_commit(x, read_abc(v, read_arrays(v, read_locals(v, is))))

---------------------------------------------------------------------------
(* The program as a state machine: two engine objects of one type and a    *)
(* text stream between them.                                               *)

\* Bounds of the model
MaxLead == 2
MaxDiscard == 3
MaxRange == 3
MaxSteps == 2
MaxReads == 1

\* The longest run of draws from one seeding: it crosses two generation passes
MaxRun == 2 * state_size + 1

Ids == {1, 2}
Other(i) == 3 - i

Zero(v) == ToWord(0, NL(v))
Ones(v) == WNot(Zero(v))

\* Seed words: the default seed and a word with no zero limb
SeedWords(v) ==
    {default_seed(v), IF v = "isaac" THEN <<1234, 5678>> ELSE <<1234, 5678, 4321, 8765>>}

\* Seed ranges: the first k words of a fixed sequence, k = 0 the empty range
RangeWord(v, k) == IF v = "isaac" THEN <<k, 7 * k>> ELSE <<k, 7 * k, 11 * k, 13 * k>>
SeedRanges(v) == {[k \in 1 .. n |-> RangeWord(v, k)] : n \in 0 .. MaxRange}

\* Seed sequences: an empty std::seed_seq and the one of the example,
\* std::seed_seq seq({1, 127, 43})
SeedSeqs == {<<>>, <<ToWord(1, 2), ToWord(127, 2), ToWord(43, 2)>>}

\* What a read outside an object may find
JunkWords(v) == {Zero(v), Ones(v)}

\* What may lie behind an empty range, from its end on: state_size words,
\* all of them zero, all of them ones, or each one another
Beyonds(v) ==
    {[k \in 1 .. state_size |-> w] : w \in JunkWords(v)}
        \cup {[k \in 1 .. state_size |-> RangeWord(v, 100 + k)]}

\* Arguments of discard: small ones, and those that empty the buffer and
\* run into the next generation pass
DiscardCounts == (0 .. MaxDiscard) \cup {state_size, state_size + 1}

\* Storage before a constructor has run: its content is indeterminate
RawStore(w, n) ==
    [result |-> [i \in Idx |-> w], memory |-> [i \in Idx |-> w],
     a |-> w, b |-> w, c |-> w, count |-> n]
RawStores(v) == {RawStore(Zero(v), ToSize(0)), RawStore(Ones(v), Ones("isaac64"))}

\* explicit _isaac(result_type s) { seed(s); } run on the storage raw
construct(v, raw, s) == seed(v, raw, s)

VARIABLES
    variant,    \* the engine type: "isaac" or "isaac64"
    engs,       \* engs[i]: the state of engine object i
    hist,       \* hist[i]: how engs[i] came about (history, read by no operation)
    strm        \* the text stream and what is known of its content

vars == <<variant, engs, hist, strm>>

\* The history of an engine just seeded: org says how (kind, the seed words
\* rng, whether loading them read past their end and the word junk found
\* there); adv counts the words drawn since, byd those of them skipped by
\* discard, dis the calls of discard; out is the last word returned, oob
\* whether a draw indexed outside result_, kin whether the engine is one of
\* a copied pair, ops the operations applied to the object and last the
\* latest of them.
Born(v, kind, rng, past, junk, ops) ==
    [org |-> [kind |-> kind, rng |-> rng, past |-> past, junk |-> junk],
     adv |-> 0, byd |-> 0, dis |-> 0, out |-> Zero(v), oob |-> FALSE,
     kin |-> FALSE, ops |-> ops, last |-> kind]

\* The operations applied so far to both objects and to the stream
Steps == hist[1].ops + hist[2].ops + strm.ops

Init ==
    /\ variant \in Variants
    /\ \E sd \in [Ids -> SeedWords(variant)], raw \in [Ids -> RawStores(variant)] :
           /\ engs = [i \in Ids |-> construct(variant, raw[i], sd[i])]
           /\ hist = [i \in Ids |->
                          Born(variant, "ctor", <<sd[i]>>, FALSE, Zero(variant), 0)]
    /\ strm = [buf |-> <<>>, pos |-> 1, fail |-> FALSE, src |-> engs[1],
               wr |-> 0, reads |-> 0, into |-> 0, ops |-> 0,
               tam |-> [kind |-> "none", fld |-> 0]]

\* No operation has killed the process
Alive == \A i \in Ids : hist[i].org.kind # "killed"

\* engs[i].seed(s)
Seed(i, s) ==
    /\ Alive
    /\ engs' = [engs EXCEPT ![i] = seed(variant, engs[i], s)]
    /\ hist' = [hist EXCEPT ![i] =
                    Born(variant, "seed", <<s>>, FALSE, Zero(variant), hist[i].ops + 1)]
    /\ UNCHANGED <<variant, strm>>

\* engs[i].seed()
SeedDefault(i) ==
    /\ Alive
    /\ engs' = [engs EXCEPT ![i] = seed_default(variant, engs[i])]
    /\ hist' = [hist EXCEPT ![i] =
                    Born(variant, "default", <<>>, FALSE, Zero(variant), hist[i].ops + 1)]
    /\ UNCHANGED <<variant, strm>>

\* engs[i].seed(q) for the std::seed_seq q holding sv
SeedSeq(i, sv) ==
    /\ Alive
    /\ engs' = [engs EXCEPT ![i] = seed_sseq(variant, engs[i], sv)]
    /\ hist' = [hist EXCEPT ![i] =
                    Born(variant, "seq", sv, FALSE, Zero(variant), hist[i].ops + 1)]
    /\ UNCHANGED <<variant, strm>>

\* engs[i].seed(begin, end) over the range rng; a read at end finds junk
Ranged(i, rng, junk, sr) ==
    /\ Alive
    /\ engs' = [engs EXCEPT ![i] = sr.eng]
    /\ hist' = [hist EXCEPT ![i] =
                    Born(variant, "range", rng, sr.past, junk, hist[i].ops + 1)]
    /\ UNCHANGED <<variant, strm>>

\* The process is killed inside an operation on engs[i], by a read at the
\* end of a range (past) or outside the object (oob): nothing is done after
\* that
Killed(i, rng, past, oob) ==
    /\ Alive
    /\ hist' = [hist EXCEPT ![i].org = [kind |-> "killed", rng |-> rng,
                                        past |-> past, junk |-> Zero(variant)],
                            ![i].oob = @ \/ oob, ![i].ops = @ + 1,
                            ![i].last = "killed"]
    /\ UNCHANGED <<variant, engs, strm>>

\* An empty range makes the loop read at end and behind it: the read finds
\* one of Beyonds there, or kills the process (a null begin)
SeedRange(i, rng) ==
    \/ \E junk \in IF rng = <<>> THEN Beyonds(variant)
                                  ELSE {[k \in 1 .. state_size |-> Zero(variant)]} :
           Ranged(i, rng, junk, seed_range(variant, engs[i], rng, junk))
    \/ rng = <<>> /\ Killed(i, rng, TRUE, FALSE)

\* engs[i](): a read outside result_ finds junk, which may be the word the
\* object holds there; a read outside the object may kill the process (die)
Called(i, cl, die) ==
    IF die THEN Killed(i, hist[i].org.rng, hist[i].org.past, TRUE)
    ELSE /\ Alive
         /\ engs' = [engs EXCEPT ![i] = cl.eng]
         /\ hist' = [hist EXCEPT ![i].adv = @ + 1, ![i].out = cl.ret,
                                 ![i].oob = @ \/ cl.oob, ![i].ops = @ + 1,
                                 ![i].last = "call"]
         /\ UNCHANGED <<variant, strm>>

Call(i) ==
    /\ hist[i].adv < MaxRun
    /\ \E junk \in IF IsZero(engs[i].count) \/ InBuffer(WSub(engs[i].count, ToSize(1)))
                       THEN {Zero(variant)}
                       ELSE JunkWords(variant) \cup
                            {beside(engs[i], WSub(engs[i].count, ToSize(1)), w) :
                                w \in JunkWords(variant)} :
       \E die \in IF call(variant, engs[i], junk).wild THEN BOOLEAN ELSE {FALSE} :
           Called(i, call(variant, engs[i], junk), die)

\* engs[i].discard(n), ds what discard gives; a draw outside the object may
\* kill the process (die)
Discarded(i, n, ds, die) ==
    IF die THEN Killed(i, hist[i].org.rng, hist[i].org.past, TRUE)
    ELSE /\ Alive
         /\ engs' = [engs EXCEPT ![i] = ds.eng]
         /\ hist' = [hist EXCEPT ![i].adv = @ + n, ![i].byd = @ + n,
                                 ![i].dis = @ + 1, ![i].oob = @ \/ ds.oob,
                                 ![i].ops = @ + 1, ![i].last = "discard"]
         /\ UNCHANGED <<variant, strm>>

Discard(i, n) ==
    /\ hist[i].adv + n <= MaxRun
    /\ \E die \in IF discard(variant, engs[i], n, Zero(variant)).wild
                       THEN BOOLEAN ELSE {FALSE} :
           Discarded(i, n, discard(variant, engs[i], n, Zero(variant)), die)

\* Object i is made anew by the copy constructor from the other object
Copy(i) ==
    /\ Alive
    /\ engs' = [engs EXCEPT ![i] = copy(engs[i], engs[Other(i)])]
    /\ hist' = [hist EXCEPT ![i] = [hist[Other(i)] EXCEPT !.kin = TRUE,
                                                          !.ops = hist[i].ops + 1,
                                                          !.last = "copy"],
                            ![Other(i)].kin = TRUE]
    /\ UNCHANGED <<variant, strm>>

\* The fields of the text of x, in the order operator<< writes them
NFields == 1 + 2 * state_size + 3
fields(x) ==
    <<put_word(x.count)>> \o [k \in 1 .. state_size |-> put_word(x.result[k - 1])]
        \o [k \in 1 .. state_size |-> put_word(x.memory[k - 1])]
        \o <<put_word(x.a), put_word(x.b), put_word(x.c)>>

RECURSIVE join(_, _)
\* The fields fs from the k-th on, one blank between neighbours
join(fs, k) ==
    IF k > Len(fs) THEN <<>>
    ELSE (IF k > 1 THEN <<32>> ELSE <<>>) \o fs[k] \o join(fs, k + 1)

\* Ways a text is damaged at its field k: "cut" ends the text before the
\* field, "junk" puts the letter x in its place, "tail" puts an x right
\* behind its digits, "huge" gives it one digit more than the largest value
\* has, "count" (of field 1) names a count just above state_size, "far" (of
\* field 1) a count far outside the object, and "other" gives it the digit
\* 4, another number.
TamperKinds == {"cut", "junk", "tail", "huge", "count", "far", "other"}
tampered(fs, kind, k) ==
    CASE kind = "cut"   -> join(SubSeq(fs, 1, k - 1), 1)
      [] kind = "junk"  -> join([fs EXCEPT ![k] = <<120>>], 1)
      [] kind = "tail"  -> join([fs EXCEPT ![k] = @ \o <<120>>], 1)
      [] kind = "huge"  -> join([fs EXCEPT ![k] = put_word(Ones("isaac64")) \o <<48>>], 1)
      [] kind = "count" -> join([fs EXCEPT ![k] = put_word(ToSize(state_size + 1))], 1)
      [] kind = "far"   -> join([fs EXCEPT ![k] = put_word(ToSize(1048576))], 1)
      [] kind = "other" -> join([fs EXCEPT ![k] = <<52>>], 1)

\* std::ostringstream os; os << engs[j]; and the text opened for reading
Write(j) ==
    /\ Alive
    /\ strm' = [buf |-> write(engs[j]), pos |-> 1, fail |-> FALSE, src |-> engs[j],
                wr |-> strm.wr + 1, reads |-> 0, into |-> 0, ops |-> strm.ops + 1,
                tam |-> [kind |-> "none", fld |-> 0]]
    /\ UNCHANGED <<variant, engs, hist>>

\* The written text is damaged before anything is read from it
Tamper(kind, k) ==
    /\ Alive
    /\ strm.wr > 0 /\ strm.reads = 0 /\ strm.tam.kind = "none"
    /\ kind \in {"count", "far"} => k = 1
    /\ strm' = [strm EXCEPT !.buf = tampered(fields(strm.src), kind, k),
                            !.tam = [kind |-> kind, fld |-> k], !.ops = @ + 1]
    /\ UNCHANGED <<variant, engs, hist>>

\* is >> engs[i]
Got(i, rd) ==
    /\ Alive
    /\ engs' = [engs EXCEPT ![i] = rd.x]
    /\ strm' = [strm EXCEPT !.pos = rd.is.pos, !.fail = rd.is.fail,
                            !.reads = @ + 1, !.into = i]
    /\ hist' = [hist EXCEPT ![i] =
                    IF rd.is.fail THEN [@ EXCEPT !.ops = @ + 1, !.last = "read"]
                    ELSE Born(variant, "text", <<>>, FALSE, Zero(variant), @.ops + 1)]
    /\ UNCHANGED variant

Read(i) ==
    Got(i, read(variant, [buf |-> strm.buf, pos |-> strm.pos, fail |-> strm.fail],
                engs[i]))

\* Every operation, on either object
Next ==
    \/ \E i \in Ids, s \in SeedWords(variant) : Seed(i, s)
    \/ \E i \in Ids : SeedDefault(i)
    \/ \E i \in Ids, rng \in SeedRanges(variant) : SeedRange(i, rng)
    \/ \E i \in Ids, sv \in SeedSeqs : SeedSeq(i, sv)
    \/ \E i \in Ids : Call(i)
    \/ \E i \in Ids, n \in DiscardCounts : Discard(i, n)
    \/ \E i \in Ids : Copy(i)
    \/ \E j \in Ids : Write(j)
    \/ \E kind \in TamperKinds, k \in 1 .. NFields : Tamper(kind, k)
    \/ \E i \in Ids : Read(i)

Spec == Init /\ [][Next]_vars

\* Two engines drawn from side by side, neither more than MaxLead words
\* ahead of the other, each using discard at most once
NextRun ==
    \E i \in Ids :
        \/ /\ hist[i].adv - hist[Other(i)].adv < MaxLead
           /\ Call(i)
        \/ \E n \in 0 .. MaxDiscard :
              /\ hist[i].dis = 0
              /\ hist[i].adv + n - hist[Other(i)].adv <= MaxLead
              /\ Discard(i, n)

SpecRun == Init /\ [][NextRun]_vars

\* Every sequence of at most MaxSteps operations on the two engines
NextOps ==
    \E i \in Ids :
        \/ \E s \in SeedWords(variant) : Steps < MaxSteps /\ Seed(i, s)
        \/ Steps < MaxSteps /\ SeedDefault(i)
        \/ \E rng \in SeedRanges(variant) : Steps < MaxSteps /\ SeedRange(i, rng)
        \/ \E sv \in SeedSeqs : Steps < MaxSteps /\ SeedSeq(i, sv)
        \/ Steps < MaxSteps /\ Call(i)
        \/ \E n \in DiscardCounts : Steps < MaxSteps /\ Discard(i, n)
        \/ Steps < MaxSteps /\ Copy(i)

SpecOps == Init /\ [][NextOps]_vars

\* Engine 1 is drawn from at most once, written to the stream, the text
\* perhaps damaged, and the stream read into either engine, which is then
\* drawn from once, or made to skip one word, if the read succeeded
NextIO ==
    \/ strm.wr = 0 /\ Steps = 0 /\ Call(1)
    \/ \E n \in DiscardCounts : strm.wr = 0 /\ Steps = 0 /\ Discard(1, n)
    \/ strm.wr = 0 /\ Write(1)
    \/ \E kind \in TamperKinds, k \in 1 .. NFields :
          (hist[1].ops = 0 \/ kind = "other") /\ Tamper(kind, k)
    \/ \E i \in Ids : strm.wr > 0 /\ strm.reads < MaxReads /\ Read(i)
    \/ \E i \in Ids : strm.into = i /\ ~ strm.fail /\ hist[i].adv = 0 /\ Call(i)
    \/ \E i \in Ids : strm.into = i /\ ~ strm.fail /\ hist[i].adv = 0 /\ Discard(i, 1)

SpecIO == Init /\ [][NextIO]_vars

\* Words a memory_ slot is given: no bit set, every bit set, and bits that
\* name a slot in between
PassWords(v) == {Zero(v), Ones(v), ToWord(20, NL(v))}

\* Engines a text can name whose batch is used up: any memory_ content
PassEngines(v) ==
    {[RawStore(Zero(v), ToSize(0)) EXCEPT !.memory = mem] : mem \in [Idx -> PassWords(v)]}

MaxPassCalls == 1

\* Both engines have been read from the text of one of these engines
InitPass ==
    /\ variant \in Variants
    /\ \E x \in PassEngines(variant) :
           /\ engs = [i \in Ids |-> x]
           /\ strm = [buf |-> write(x), pos |-> Len(write(x)) + 1, fail |-> FALSE,
                      src |-> x, wr |-> 1, reads |-> 2, into |-> 2, ops |-> 1,
                      tam |-> [kind |-> "none", fld |-> 0]]
    /\ hist = [i \in Ids |-> Born(variant, "text", <<>>, FALSE, Zero(variant), 1)]

\* Either engine is called, and its first call runs a generation pass
NextPass == \E i \in Ids : hist[i].adv < MaxPassCalls /\ Call(i)

SpecPass == InitPass /\ [][NextPass]_vars

---------------------------------------------------------------------------
(* Properties                                                              *)

\* A freshly constructed engine of the type v with the seed word s
Fresh(v, s) == construct(v, RawStore(Zero(v), ToSize(0)), s)

\* The step is one call engs[i]() that returned
CallStep(i) == hist'[i].ops = hist[i].ops + 1 /\ hist'[i].last = "call"

\* The step is the first read of the stream, into engine i
FirstRead(i) ==
    strm.wr > 0 /\ strm.reads = 0 /\ strm'.reads = 1 /\ strm'.into = i

\* The engine whose text is that of x with the number n in place of field k
with_field(v, x, k, n) ==
    IF k = 1 THEN [x EXCEPT !.count = ToSize(n)]
    ELSE IF k <= 1 + state_size
        THEN [x EXCEPT !.result[k - 2] = ToWord(n, NL(v))]
    ELSE IF k <= 1 + 2 * state_size
        THEN [x EXCEPT !.memory[k - 2 - state_size] = ToWord(n, NL(v))]
    ELSE IF k = NFields - 2 THEN [x EXCEPT !.a = ToWord(n, NL(v))]
    ELSE IF k = NFields - 1 THEN [x EXCEPT !.b = ToWord(n, NL(v))]
    ELSE [x EXCEPT !.c = ToWord(n, NL(v))]

\* C1: Serialization round-trip.  Reading the text operator<< wrote for an
\* engine into an engine of the same type succeeds and leaves the target
\* equal to the source: count, every result_ slot, every memory_ slot, a, b
\* and c all match.
C1_RoundTrip ==
    [][\A i \in Ids :
          (FirstRead(i) /\ strm.tam.kind = "none")
              => /\ ~ strm'.fail
                 /\ equal(engs'[i], strm.src)
                 /\ engs'[i] = strm.src]_vars

\* C1 happens: engine 2 has been read from the text of an engine 1 that had
\* already given out words, and is equal to it.
C1_Witness ==
    /\ strm.reads = 1 /\ strm.tam.kind = "none" /\ strm.into = 2 /\ ~ strm.fail
    /\ strm.src.count = ToSize(state_size - 1)
    /\ hist[2].org.kind = "text" /\ hist[2].adv = 0
    /\ equal(engs[2], strm.src)

\* C2: Discard equivalence.  An engine that used discard is in the same
\* state as an engine constructed alike that drew the same number of words
\* one call at a time; discard(0) in particular changes nothing.
C2_DiscardEquivalence ==
    \A i \in Ids :
        (/\ hist[i].dis > 0 /\ hist[Other(i)].dis = 0
         /\ hist[i].org = hist[Other(i)].org
         /\ hist[i].adv = hist[Other(i)].adv)
            => equal(engs[i], engs[Other(i)]) /\ engs[i] = engs[Other(i)]

\* C2 happens: engine 1 skipped MaxDiscard words by one discard, engine 2 drew
\* every word by a call, and both stand past the first generation pass.
C2_Witness ==
    /\ hist[1].dis = 1 /\ hist[1].byd = MaxDiscard /\ hist[2].dis = 0
    /\ hist[1].org = hist[2].org
    /\ hist[1].adv = state_size + 1 /\ hist[2].adv = state_size + 1
    /\ equal(engs[1], engs[2])

\* C3: Reseed equals construction.  Whatever an engine went through before,
\* seed(s) leaves it equal to a freshly constructed engine with the seed s,
\* and seed() leaves it equal to a default-constructed engine.
C3_ReseedEqualsConstruction ==
    \A i \in Ids :
        /\ (hist[i].org.kind = "seed" /\ hist[i].adv = 0)
              => /\ equal(engs[i], Fresh(variant, hist[i].org.rng[1]))
                 /\ engs[i] = Fresh(variant, hist[i].org.rng[1])
        /\ (hist[i].org.kind = "default" /\ hist[i].adv = 0)
              => /\ equal(engs[i], Fresh(variant, default_seed(variant)))
                 /\ engs[i] = Fresh(variant, default_seed(variant))

\* C3 happens: an engine that was operated on before has been reseeded with a
\* word other than the default seed.
C3_Witness ==
    \E i \in Ids :
        /\ hist[i].org.kind = "seed" /\ hist[i].ops = 2 /\ hist[i].adv = 0
        /\ hist[i].org.rng[1] # default_seed(variant)
        /\ equal(engs[i], Fresh(variant, hist[i].org.rng[1]))

\* C4: Determinism.  Two engines constructed with the same seed are equal
\* and, drawn from by calls only, return the same word on each of their
\* first 2 * state_size calls and are equal after each call.
C4_Determinism ==
    (/\ hist[1].org.kind = "ctor" /\ hist[1].org = hist[2].org
     /\ hist[1].dis = 0 /\ hist[2].dis = 0
     /\ hist[1].adv = hist[2].adv /\ hist[1].adv <= 2 * state_size)
        => equal(engs[1], engs[2]) /\ hist[1].out = hist[2].out

\* C4 happens: both engines have made 2 * state_size calls, which crosses a
\* generation pass, and returned the same word.
C4_Witness ==
    /\ hist[1].org.kind = "ctor" /\ hist[1].org = hist[2].org
    /\ hist[1].dis = 0 /\ hist[2].dis = 0
    /\ hist[1].adv = 2 * state_size /\ hist[2].adv = 2 * state_size
    /\ hist[1].out = hist[2].out /\ hist[1].out # Zero(variant)

\* C5: Post-mutation inequality.  A single call of operator()(), with
\* count > 0 as with count = 0, leaves the engine not equal to what it was
\* immediately before the call.
C5_CallChangesState ==
    [][\A i \in Ids :
          CallStep(i)
              => not_equal(engs'[i], engs[i])]_vars

\* C5 happens: an engine has been called with its count at zero, after
\* state_size calls with the count above zero.
C5_Witness ==
    \E i \in Ids :
        /\ hist[i].dis = 0 /\ hist[i].adv = state_size + 1
        /\ engs[i].count = ToSize(state_size - 1)

\* C6: Cursor invariant.  In every state reached through public operations,
\* a successful operator>> on an all-numeric text included,
\* 0 <= count <= state_size holds and no call has read outside result_.
C6_CursorInvariant ==
    \A i \in Ids :
        /\ InBuffer(engs[i].count) \/ engs[i].count = ToSize(state_size)
        /\ ~ hist[i].oob

C11_ExactEquality ==
    \A x, y \in {engs[1], engs[2], strm.src} :
        /\ equal(x, y) <=>
              /\ x.a = y.a /\ x.b = y.b /\ x.c = y.c /\ x.count = y.count
              /\ \A k \in Idx : x.result[k] = y.result[k]
              /\ \A k \in Idx : x.memory[k] = y.memory[k]
        /\ not_equal(x, y) <=> ~ equal(x, y)

\* C11 happens: engine 2 was read from the text of an engine that had given
\* out its result_ slot state_size-1, with another number in that slot; it
\* matches the source everywhere else and is not equal to it.
C11_Witness ==
    /\ strm.reads = 1 /\ strm.into = 2 /\ ~ strm.fail
    /\ strm.tam.kind = "other" /\ strm.tam.fld = 1 + state_size
    /\ strm.src.count = ToSize(state_size - 1)
    /\ engs[2].result[state_size - 1] # strm.src.result[state_size - 1]
    /\ [engs[2] EXCEPT !.result[state_size - 1] = strm.src.result[state_size - 1]]
          = strm.src
    /\ not_equal(engs[2], strm.src) /\ ~ equal(strm.src, engs[2])

\* C12: operator()() step.  Called with count = 0 it runs exactly one
\* generation pass, returns result_[state_size-1] of the new batch and leaves
\* count = state_size-1; called with count > 0 it runs no generation pass,
\* takes one off count, returns result_ at the new count and leaves result_,
\* memory_, a, b and c as they were.
C12_CallStep ==
    [][\A i \in Ids :
          CallStep(i) =>
              IF IsZero(engs[i].count)
                  THEN /\ [engs'[i] EXCEPT !.count = engs[i].count]
                             = do_isaac(variant, engs[i])
                       /\ engs'[i].c = WAdd(engs[i].c, ToWord(1, NL(variant)))
                       /\ engs'[i].result # engs[i].result
                       /\ engs'[i].count = ToSize(state_size - 1)
                       /\ hist'[i].out = engs'[i].result[state_size - 1]
                  ELSE /\ engs'[i].count = WSub(engs[i].count, ToSize(1))
                       /\ InBuffer(engs'[i].count)
                       /\ hist'[i].out = engs[i].result[engs'[i].count[1]]
                       /\ engs'[i].result = engs[i].result
                       /\ engs'[i].memory = engs[i].memory
                       /\ engs'[i].a = engs[i].a /\ engs'[i].b = engs[i].b
                       /\ engs'[i].c = engs[i].c]_vars

\* C12 happens: an engine drawn from by calls only has made the call that
\* found count = 0: it is in its second batch since the seed, count is
\* state_size-1 and the word returned is result_[state_size-1].
C12_Witness ==
    \E i \in Ids :
        /\ hist[i].dis = 0 /\ hist[i].adv = state_size + 1
        /\ engs[i].c = ToWord(2, NL(variant))
        /\ engs[i].count = ToSize(state_size - 1)
        /\ hist[i].out = engs[i].result[state_size - 1]

RECURSIVE regenerated(_, _, _)
\* The engine e after p more generation passes
regenerated(v, e, p) ==
    IF p = 0 THEN e ELSE regenerated(v, do_isaac(v, e), p - 1)

\* The batch an engine constructed with the seed word s serves its n-th word
\* from, n >= 1: the one init made for the first state_size words, the one of
\* the first regeneration for the next state_size, and so on
batch_of(v, s, n) == regenerated(v, Fresh(v, s), (n - 1) \div state_size).result

\* The slot the n-th word after a seed is served from
slot_of(n) == state_size - 1 - ((n - 1) % state_size)

\* C13: LIFO consumption of a batch.  After a seed, and after every
\* regeneration, the next state_size words operator()() returns are the
\* result_ slots of that one batch at state_size-1, state_size-2, ..., 0 in
\* that order, each slot once and none skipped; the batch init made is
\* served whole before the first regeneration.  So the n-th word drawn is
\* slot state_size-1 - ((n-1) mod state_size) of batch (n-1) div state_size,
\* which result_ holds while it is served, and count names the slot.
C13_LifoConsumption ==
    \A i \in Ids :
        (hist[i].org.kind = "ctor" /\ hist[i].dis = 0 /\ hist[i].adv >= 1)
            => /\ engs[i].result = batch_of(variant, hist[i].org.rng[1], hist[i].adv)
               /\ engs[i].count = ToSize(slot_of(hist[i].adv))
               /\ hist[i].out = engs[i].result[slot_of(hist[i].adv)]

\* C13 happens: an engine has been called state_size times since it was
\* constructed; the word returned last is slot 0 of the batch init made,
\* nothing is left of the batch and no regeneration has run.
C13_Witness ==
    \E i \in Ids :
        /\ hist[i].org.kind = "ctor" /\ hist[i].dis = 0
        /\ hist[i].adv = state_size /\ IsZero(engs[i].count)
        /\ engs[i].result = Fresh(variant, hist[i].org.rng[1]).result
        /\ hist[i].out = engs[i].result[0]
        /\ engs[i].c = ToWord(1, NL(variant))

\* The generation passes run when n words have been drawn since a seed: the
\* one inside init, and one for each batch used up before the n-th word
passes_by(n) == IF n = 0 THEN 1 ELSE 1 + ((n - 1) \div state_size)

\* C14: Pass counter.  Every seed operation resets c to 0, each generation
\* pass adds exactly one to it (modulo 2^wordwidth) and nothing else changes
\* it: right after any seed c = 1, and after n >= 1 words drawn since, by
\* operator()() or by the calls discard makes, c = 1 + floor((n-1)/state_size).
C14_PassCounter ==
    \A i \in Ids :
        hist[i].org.kind \in {"ctor", "seed", "default", "range", "seq"}
            => engs[i].c = ToWord(passes_by(hist[i].adv), NL(variant))

\* C14 happens: a constructed engine was seeded again from a range and
\* state_size + 1 words were drawn from it, which takes one regeneration
\* since that seed; c is 2.
C14_Witness ==
    \E i \in Ids :
        /\ hist[i].org.kind = "range" /\ hist[i].org.rng # <<>>
        /\ hist[i].ops = 2 /\ hist[i].adv = state_size + 1
        /\ engs[i].c = ToWord(2, NL(variant))

\* sizeof(result_type) and its logarithm
word_bytes(v) == IF v = "isaac" THEN 4 ELSE 8
log2_bytes(v) == IF v = "isaac" THEN 2 ELSE 3

\* What the rngsteps of one generation pass on the engine e touch, in order
accesses(v, e) == IF v = "isaac" THEN isaac_loops(e).log ELSE isaac64_loops(e).log

\* C15: Bounds of a generation pass.  Whatever memory_ holds, for both word
\* widths, every rngstep of a pass reads and writes memory_ and result_ at
\* indices in 0 .. state_size-1; its first indirect load reads memory_ at
\* (x >> log2(word bytes)) & (state_size-1) and its second at
\* ((y >> Alpha) >> log2(word bytes)) & (state_size-1), both at a whole
\* word; and the pass writes each memory_ slot and each result_ slot exactly
\* once, memory_ keeping the y written.
C15_PassBounds ==
    [][\A i \in Ids :
          (CallStep(i) /\ IsZero(engs[i].count)) =>
              LET lg == accesses(variant, engs[i])
                  wb == word_bytes(variant)
                  lb == log2_bytes(variant)
              IN  /\ Len(lg) = state_size
                  /\ \A j \in 1 .. Len(lg) :
                         /\ lg[j].m \in Idx /\ lg[j].m2 \in Idx /\ lg[j].r \in Idx
                         /\ lg[j].ld1 % wb = 0 /\ lg[j].ld1 \div wb \in Idx
                         /\ lg[j].ld1 \div wb = WShr(lg[j].x, lb)[1] % state_size
                         /\ lg[j].ld2 % wb = 0 /\ lg[j].ld2 \div wb \in Idx
                         /\ lg[j].ld2 \div wb
                               = WShr(WShr(lg[j].y, Alpha), lb)[1] % state_size
                         /\ engs'[i].memory[lg[j].m] = lg[j].y
                  /\ \A k \in Idx :
                         /\ Cardinality({j \in 1 .. Len(lg) : lg[j].m = k}) = 1
                         /\ Cardinality({j \in 1 .. Len(lg) : lg[j].r = k}) = 1]_vars

\* C15 happens: engine 1 has run a generation pass on a memory_ content a
\* text gave it, and in that pass both indirect loads have read the last
\* slot of memory_ and the first load has read the first slot too.
C15_Witness ==
    /\ hist[1].org.kind = "text" /\ hist[1].adv = 1
    /\ engs[1].memory = do_isaac(variant, strm.src).memory
    /\ \E j, k, l \in 1 .. state_size :
           /\ accesses(variant, strm.src)[j].ld1 = 0
           /\ accesses(variant, strm.src)[k].ld1
                 = (state_size - 1) * word_bytes(variant)
           /\ accesses(variant, strm.src)[l].ld2
                 = (state_size - 1) * word_bytes(variant)

\* The step is engs[i].seed(s) or engs[i].seed()
SeedStep(i) ==
    hist'[i].ops = hist[i].ops + 1 /\ hist'[i].last \in {"seed", "default"}

\* The engine e with the seed word of the origin org in every result_ slot,
\* as seed(s) hands it to init
Filled(v, e, org) ==
    [e EXCEPT !.result =
        [k \in Idx |-> IF org.kind = "seed" THEN org.rng[1] ELSE default_seed(v)]]

\* The eight golden-ratio registers, mixed four times
warm_regs(v) == mix(v, mix(v, mix(v, mix(v, initRegs(golden(v))))))

\* The pass that adds the words the pass before it wrote, chunk by chunk
second_pass(v, st1) == initPass1(v, [st1 EXCEPT !.i = 0], st1.mem)

\* init as the two passes are described, the first pass adding the words of
\* the array src: a, b, c zeroed, the registers warmed, a pass over src and
\* a pass over what it wrote, one generation pass, count at state_size
init_adding(v, e, src) ==
    initFill(v, [e EXCEPT !.a = Zero(v), !.b = Zero(v), !.c = Zero(v)],
             second_pass(v, initPass1(v, [regs |-> warm_regs(v), mem |-> e.memory,
                                          i |-> 0], src)).mem)

\* C16 as stated: the first pass of init adds the words of memory_, chunk by
\* chunk, into the registers.
C16_AsStated ==
    [][\A i \in Ids :
          SeedStep(i) =>
              engs'[i] = init_adding(variant, Filled(variant, engs[i], hist'[i].org),
                                     engs[i].memory)]_vars

\* C16: initialize() passes.  init zeroes a, b and c and mixes the eight
\* golden-ratio registers four times; its first pass adds, chunk by chunk,
\* the eight words of result_, where the seed is, into the registers and never
\* reads what memory_ held; its second pass adds the eight words the first
\* pass wrote to that chunk of memory_; either pass mixes the registers once
\* per chunk and writes them to that chunk of memory_; then one generation
\* pass runs and count is set to state_size.
C16_InitPasses ==
    [][\A i \in Ids :
          SeedStep(i) =>
              /\ engs'[i] = init_adding(variant,
                                        Filled(variant, engs[i], hist'[i].org),
                                        Filled(variant, engs[i], hist'[i].org).result)
              /\ engs'[i] = init_adding(variant,
                                        Filled(variant, RawStore(Ones(variant), ToSize(0)),
                                               hist'[i].org),
                                        Filled(variant, engs[i], hist'[i].org).result)
              /\ engs'[i].c = ToWord(1, NL(variant))
              /\ engs'[i].count = ToSize(state_size)]_vars

\* C16 happens: an engine that had drawn words was seeded with a word other
\* than the default seed, and is what the passes over result_ make of that
\* word, not what passes over the memory_ of a constructed engine make of it.
C16_Witness ==
    \E i \in Ids :
        /\ hist[i].org.kind = "seed" /\ ~ hist[i].kin
        /\ hist[i].ops = 2 /\ hist[i].adv = 0
        /\ hist[i].org.rng[1] # default_seed(variant)
        /\ engs[i] = init_adding(variant,
                                 Filled(variant, RawStore(Zero(variant), ToSize(0)),
                                        hist[i].org),
                                 [k \in Idx |-> hist[i].org.rng[1]])
        /\ engs[i] # init_adding(variant,
                                 Filled(variant, RawStore(Zero(variant), ToSize(0)),
                                        hist[i].org),
                                 Fresh(variant, default_seed(variant)).memory)

\* The range of state_size words got by repeating rng from its start
Repeated(rng) == [j \in 1 .. state_size |-> rng[((j - 1) % Len(rng)) + 1]]

\* result_ as seed(begin, end) loads it from rng, before init runs
Loaded(v, rng) ==
    seed_load(rng, [k \in 1 .. state_size |-> Zero(v)],
              [res |-> RawStore(Zero(v), ToSize(0)).result, i |-> 0, it |-> 1,
               past |-> FALSE]).res

\* C8: Cyclic seeding.  seed(begin, end) over a non-empty range shorter than
\* state_size gives the engine that seeding from the range repeated up to
\* state_size words gives: result_[i] is loaded with element i mod k.
C8_CyclicSeeding ==
    \A i \in Ids :
        (/\ hist[i].org.kind = "range" /\ hist[i].adv = 0
         /\ Len(hist[i].org.rng) \in 1 .. (state_size - 1))
            => /\ engs[i] = seed_range(variant, RawStore(Zero(variant), ToSize(0)),
                                       Repeated(hist[i].org.rng),
                                       [k \in 1 .. state_size |-> Zero(variant)]).eng
               /\ \A j \in Idx :
                     Loaded(variant, hist[i].org.rng)[j]
                         = hist[i].org.rng[(j % Len(hist[i].org.rng)) + 1]
               /\ ~ hist[i].org.past

\* C8 happens: an engine that was operated on before has been seeded from a
\* range of MaxRange words.
C8_Witness ==
    \E i \in Ids :
        /\ hist[i].org.kind = "range" /\ Len(hist[i].org.rng) = MaxRange
        /\ hist[i].ops = 2 /\ hist[i].adv = 0
        /\ engs[i].count = ToSize(state_size)

\* C9: Empty seed range.  seed(begin, end) with begin = end reads no element
\* at or past the end of the range and seeds as the default seed does.
C9_EmptyRangeDefined ==
    \A i \in Ids :
        (hist[i].org.kind = "range" /\ hist[i].org.rng = <<>>)
            => /\ ~ hist[i].org.past
               /\ hist[i].adv = 0 => equal(engs[i], Fresh(variant, default_seed(variant)))

\* C10: Copy independence.  The copy constructor makes an engine equal to
\* its source, all six pieces of state alike, and from then on an operation
\* on one engine of the pair leaves every piece of state of the other as it
\* was.
C10_CopyIndependence ==
    [][\A i \in Ids :
          /\ Copy(i) => /\ equal(engs'[i], engs'[Other(i)])
                        /\ engs'[i] = engs[Other(i)]
          /\ (hist[i].kin /\ hist'[i].ops # hist[i].ops)
                => engs'[Other(i)] = engs[Other(i)]]_vars

\* C10 happens: of a copied pair, one engine has drawn a word since and the
\* two are no longer equal.
C10_Witness ==
    /\ hist[1].kin /\ hist[2].kin /\ hist[1].org = hist[2].org
    /\ hist[1].adv = 1 /\ hist[2].adv = 0
    /\ not_equal(engs[1], engs[2])

====
